---- MODULE Spec2Model ----
(***************************************************************************)
(* A model of the melonjs contract-call dispatcher (Contract.makeCall and  *)
(* its per-environment call cache), of the exchange trading adapters       *)
(* (ZeroExTradingAdapter, Kyber) and of the 0x order signing step.         *)
(*                                                                         *)
(* Three specifications share the module, one per subsystem:               *)
(*   SpecCache  Contract.makeCall, the call cache and the promises of the  *)
(*              underlying method bindings;                                *)
(*   SpecTrade  cancelOrder / takeOrder / makeOrder of the 0x adapter and  *)
(*              takeOrder of the Kyber adapter, through callOnExchange;    *)
(*   SpecSign   createUnsignedOrder and signOrder of the 0x adapter.        *)
(* Each leaves the variables of the other two at their initial values.     *)
(***************************************************************************)
EXTENDS Integers, Sequences, FiniteSets, TLC

\* ------------------------------------------------------------------ values

\* A JavaScript `undefined` in a slot that otherwise holds a number or an address.
Undefined == -1

\* `undefined` in a slot that otherwise holds a string or an argument list.
UndefStr == <<Undefined>>

\* Addresses are numbers: 2 * id + form, where form 0 is the lower-case spelling
\* and form 1 the checksummed spelling of the same 20 bytes.
zeroAddress == 0

zeroBigNumber == 0

\* utils/sameAddress: equality of the addresses, whatever their spelling.
sameAddress(a, b) ==
  a # Undefined /\ b # Undefined /\ (a \div 2) = (b \div 2)

\* ------------------------------------------------------------------ bounds

\* Underlying method-binding invocations a run of SpecCache may make.
MaxPromises == 2

\* Largest value the on-chain quantity read by a binding can take.
MaxChainVal == 1

\* ------------------------------------------------------------------ state

VARIABLES
  \* --- SpecCache
  cacheEnabled,   \* environment.cache is present
  cache,          \* environment.cache: key -> promise (index into promises)
  promises,       \* the promise of every invocation of a method binding, in order
  chain,          \* the on-chain quantity a read at 'latest' returns
  lastCall,       \* the latest makeCall invocation and its outcome
  firstRet,       \* key -> the promise the first makeCall with that key returned
  \* --- SpecTrade
  world,          \* the fund's on-chain state the validation checks read
  op,             \* the adapter operation in flight and its inputs
  pc,             \* the position of the operation
  methodArgs,     \* the CallOnExchangeArgs record the operation built
  checks,         \* check name -> "notrun" | "pending" | "passed" | "failed"
  error,          \* the error the operation surfaced to its caller
  netCalls,       \* network reads issued by the operation
  submissions,    \* state-changing callOnExchange submissions of the operation
  \* --- SpecSign
  signPc,         \* the position of the order in its signing lifecycle
  order,          \* the order built by createUnsignedOrder
  signer,         \* the signer address given to signOrder
  signed,         \* the output of the signing primitive
  returned        \* the order signOrder returned

cacheVars == <<cacheEnabled, cache, promises, chain, lastCall, firstRet>>

tradeVars == <<world, op, pc, methodArgs, checks, error, netCalls, submissions>>

signVars == <<signPc, order, signer, signed, returned>>

vars == <<cacheVars, tradeVars, signVars>>

\* ================================================================== SpecCache

\* Argument lists: omitted, or a list of addresses.
UndefArgs == UndefStr

\* The makeCall invocations of a run: Token objects bound to two on-chain
\* addresses calling through one environment. Against the first, each of the
\* others differs in the contract, the argument list, the block or the method
\* name alone; the last omits the argument list.
CallSites ==
  { [contract |-> "tokenA", name |-> "balanceOf", args |-> <<2>>, block |-> Undefined],
    [contract |-> "tokenB", name |-> "balanceOf", args |-> <<2>>, block |-> Undefined],
    [contract |-> "tokenA", name |-> "balanceOf", args |-> <<4>>, block |-> Undefined],
    [contract |-> "tokenA", name |-> "balanceOf", args |-> <<2>>, block |-> 7],
    [contract |-> "tokenA", name |-> "allowance", args |-> <<2>>, block |-> Undefined],
    [contract |-> "tokenA", name |-> "balanceOf", args |-> UndefArgs, block |-> Undefined] }

\* `${block}` of the template literal.
BlockKey(block) ==
  IF block = Undefined THEN "undefined" ELSE ToString(block)

\* block && block.toFixed(0)
Bloq(block) ==
  IF block = Undefined THEN "undefined" ELSE ToString(block)

\* JSON.stringify(args): `undefined` for an omitted list, else the text of the list.
JSONstringify(args) ==
  IF args = UndefArgs THEN "undefined" ELSE ToString(args)

\* md5 raises on `undefined` (JSON.stringify of an omitted argument list);
\* otherwise it is a digest of the text.
Md5Throws(args) == args = UndefArgs

md5(text) == <<"md5", text>>

\* `${block}:${name}:${md5(JSON.stringify(args))}`
\* Faulty variant of Key: the block reference is left out of the key.
KeyWithoutBlock(block, name, args) ==
  <<"undefined", name, md5(JSONstringify(args))>>

Key(block, name, args) ==
  <<BlockKey(block), name, md5(JSONstringify(args))>>

NoCall ==
  [contract |-> "none", block |-> Undefined, name |-> "none", args |-> UndefArgs,
   outcome |-> "none", result |-> 0, invoked |-> FALSE]

\* cache && cache.has(key)
\* Faulty variant of CacheHit: the cache is never consulted.
CacheHitNever(key) == FALSE

\* Faulty variant of CacheHit: the entry of a failed request does not count.
CacheHitUnlessRejected(key) ==
  cacheEnabled /\ key \in DOMAIN cache /\ promises[cache[key]].state # "rejected"

CacheHit(key) == cacheEnabled /\ key \in DOMAIN cache

\* cache && cache.set(key, promise)
\* Faulty variant of CacheSet: storing an entry drops the others.
CacheSetEvicting(key, p) ==
  IF cacheEnabled THEN (key :> p) ELSE cache

\* Faulty variant of CacheSet: the promise is handed back but never stored.
CacheSetNothing(key, p) == cache

CacheSet(key, p) ==
  IF cacheEnabled THEN (key :> p) @@ cache ELSE cache

\* Contract.makeCall: one synchronous step. The method binding hands back a
\* promise; every failure of the request is a rejection of that promise.
MakeCall(site) ==
  LET key == Key(site.block, site.name, site.args) IN
  /\ IF cacheEnabled /\ Md5Throws(site.args)
     THEN \* the key cannot be computed: md5 raises before anything else happens
          /\ lastCall' = site @@ [outcome |-> "threw", result |-> 0, invoked |-> FALSE]
          /\ UNCHANGED <<cache, promises, firstRet>>
     ELSE IF CacheHit(key)
     THEN /\ lastCall' = site @@ [outcome |-> "returned", result |-> cache[key],
                                  invoked |-> FALSE]
          /\ firstRet' = IF key \in DOMAIN firstRet THEN firstRet
                         ELSE (key :> cache[key]) @@ firstRet
          /\ UNCHANGED <<cache, promises>>
     ELSE /\ Len(promises) < MaxPromises
          /\ LET p == Len(promises) + 1 IN
             /\ promises' = Append(promises,
                  [contract |-> site.contract, name |-> site.name, args |-> site.args,
                   block |-> site.block, bloq |-> Bloq(site.block), key |-> key,
                   state |-> "pending", value |-> 0])
             /\ cache' = CacheSet(key, p)
             /\ lastCall' = site @@ [outcome |-> "returned", result |-> p,
                                     invoked |-> TRUE]
             /\ firstRet' = IF key \in DOMAIN firstRet THEN firstRet
                            ELSE (key :> p) @@ firstRet
  /\ UNCHANGED <<cacheEnabled, chain, tradeVars, signVars>>

\* The request of a pending promise completes with what the contract holds: the
\* current quantity for a read at 'latest', the recorded one for a past block.
Resolve(p) ==
  /\ promises[p].state = "pending"
  /\ promises' = [promises EXCEPT ![p].state = "resolved",
                    ![p].value = IF promises[p].bloq = "undefined" THEN chain ELSE 0]
  /\ UNCHANGED <<cacheEnabled, cache, chain, lastCall, firstRet, tradeVars, signVars>>

\* The request of a pending promise fails (network failure, revert).
\* Faulty variant of Reject: the failed request is issued a second time.
RejectAndRetry(p) ==
  /\ promises[p].state = "pending"
  /\ promises' = Append([promises EXCEPT ![p].state = "rejected"],
                        [promises[p] EXCEPT !.state = "pending"])
  /\ UNCHANGED <<cacheEnabled, cache, chain, lastCall, firstRet, tradeVars, signVars>>

Reject(p) ==
  /\ promises[p].state = "pending"
  /\ promises' = [promises EXCEPT ![p].state = "rejected"]
  /\ UNCHANGED <<cacheEnabled, cache, chain, lastCall, firstRet, tradeVars, signVars>>

\* A state-changing call changes what the contracts hold; it bypasses the cache.
ChainWrite ==
  /\ chain < MaxChainVal
  /\ chain' = chain + 1
  /\ UNCHANGED <<cacheEnabled, cache, promises, lastCall, firstRet, tradeVars, signVars>>

NextCache ==
  \/ \E site \in CallSites : MakeCall(site)
  \/ \E p \in DOMAIN promises : Resolve(p)
  \/ \E p \in DOMAIN promises : Reject(p)
  \/ ChainWrite

\* ================================================================== SpecTrade

\* --- hex strings are sequences of hex digits (without the 0x prefix)

RECURSIVE numberToHex(_)
\* web3-utils numberToHex
numberToHex(n) ==
  IF n < 16 THEN <<n>> ELSE numberToHex(n \div 16) \o <<n % 16>>

\* web3-utils padLeft: zeros on the left up to `width` digits
padLeft(hex, width) ==
  IF Len(hex) >= width THEN hex
  ELSE [i \in 1..(width - Len(hex)) |-> 0] \o hex

\* a string that is `undefined` or empty is falsy
Falsy(str) == str = UndefStr \/ str = <<>>

\* assetDataUtils.encodeERC20AssetData / decodeERC20AssetData(...).tokenAddress
encodeERC20AssetData(token) == <<15, token>>

decodeERC20AssetData(data) == data[2]

\* --- the fund

tokenB == 6

tokenC == 8

Tokens == {tokenB, tokenC}

\* The fund manager, as the hub records it (checksummed spelling).
managerAddress == 21

\* Senders: the manager in both spellings, and somebody else.
Senders == {20, 21, 22}

\* The address of the fund's trading contract.
tradingAddress == 10

Worlds ==
  [manager : {managerAddress},
   shutdown : BOOLEAN,
   balance : [Tokens -> {0, 2}],
   openMake : SUBSET Tokens,
   cooledDown : SUBSET Tokens]

\* What trading.getExchangeInfo() can return: the fund's registered exchanges,
\* each a distinct on-chain address.
ExchangeLists ==
  { <<>>,
    <<[exchange |-> 31]>>,
    <<[exchange |-> 32], [exchange |-> 30]>>,
    <<[exchange |-> 32], [exchange |-> 34], [exchange |-> 31]>>,
    <<[exchange |-> 34], [exchange |-> 32]>> }

\* --- inputs

\* Signed 0x orders handed to takeOrder / makeOrder.
SignedOrders ==
  { [makerAddress |-> tradingAddress, feeRecipientAddress |-> zeroAddress,
     makerAssetData |-> encodeERC20AssetData(tokenB),
     takerAssetData |-> encodeERC20AssetData(tokenC),
     makerAssetAmount |-> 1, takerAssetAmount |-> 1, makerFee |-> 0, takerFee |-> 0,
     expirationTimeSeconds |-> 100, salt |-> 1, signature |-> <<1, 11, 0, 3>>],
    [makerAddress |-> 12, feeRecipientAddress |-> 14,
     makerAssetData |-> encodeERC20AssetData(tokenC),
     takerAssetData |-> encodeERC20AssetData(tokenB),
     makerAssetAmount |-> 3, takerAssetAmount |-> 2, makerFee |-> 0, takerFee |-> 1,
     expirationTimeSeconds |-> 200, salt |-> 2, signature |-> <<1, 12, 0, 6>>] }

TakerAmounts == {Undefined, 0, 3}

CancelArgs ==
  [orderHashHex : {UndefStr, <<>>, padLeft(<<10, 11>>, 64)},
   orderId : {Undefined, 0, 17}]

KyberArgs ==
  [kyberAddress : {30, 31, 36},
   makerAsset : {tokenB},
   takerAsset : {tokenC},
   makerQuantity : {100, 0},
   takerQuantity : {50}]

\* randomHex(32)
RandomHexes == {padLeft(<<1>>, 64), padLeft(<<2>>, 64)}

\* this.index of the 0x adapter instance
zxIndex == 1

CheckNames ==
  {"checkSufficientBalance", "checkFundIsNotShutdown", "checkSenderIsFundManager",
   "checkExistingOpenMakeOrder", "checkCooldownReached"}

NoError == [name |-> "none", address |-> Undefined]

NoMethodArgs ==
  [exchangeIndex |-> Undefined, methodSignature |-> "none",
   orderAddresses |-> <<>>, orderValues |-> <<>>, identifier |-> UndefStr,
   makerAssetData |-> <<>>, takerAssetData |-> <<>>, signature |-> <<>>]

NoOp ==
  [adapter |-> "none", kind |-> "none", from |-> Undefined, validate |-> "none",
   token |-> Undefined, amount |-> Undefined, makerToken |-> Undefined,
   makerAmount |-> Undefined, orderHashHex |-> UndefStr, kyberAddress |-> Undefined,
   makerAsset |-> Undefined, takerAsset |-> Undefined,
   makerQuantity |-> Undefined, takerQuantity |-> Undefined, exchangeInfo |-> <<>>,
   takerAmount |-> Undefined]

\* --- the call-argument records (CallOnExchangeArgs)

\* cancelOrder: orderHashHex = args.orderHashHex || (args.orderId && padLeft(...))
CancelOrderHashHex(args) ==
  IF ~Falsy(args.orderHashHex) THEN args.orderHashHex
  ELSE IF args.orderId = Undefined THEN UndefStr
  ELSE padLeft(numberToHex(args.orderId), 64)

\* Faulty variant of ZxCancelArgs: one zero short in orderValues.
ZxCancelArgsSevenValues(orderHashHex) ==
  [exchangeIndex |-> zxIndex,
   methodSignature |-> "cancelOrder",
   orderAddresses |-> <<zeroAddress, zeroAddress, zeroAddress, zeroAddress,
                        zeroAddress, zeroAddress>>,
   orderValues |-> <<zeroBigNumber, zeroBigNumber, zeroBigNumber, zeroBigNumber,
                     zeroBigNumber, zeroBigNumber, zeroBigNumber>>,
   identifier |-> orderHashHex,
   makerAssetData |-> padLeft(<<0>>, 64),
   takerAssetData |-> padLeft(<<0>>, 64),
   signature |-> padLeft(<<0>>, 64)]

ZxCancelArgs(orderHashHex) ==
  [exchangeIndex |-> zxIndex,
   methodSignature |-> "cancelOrder",
   orderAddresses |-> <<zeroAddress, zeroAddress, zeroAddress, zeroAddress,
                        zeroAddress, zeroAddress>>,
   orderValues |-> <<zeroBigNumber, zeroBigNumber, zeroBigNumber, zeroBigNumber,
                     zeroBigNumber, zeroBigNumber, zeroBigNumber, zeroBigNumber>>,
   identifier |-> orderHashHex,
   makerAssetData |-> padLeft(<<0>>, 64),
   takerAssetData |-> padLeft(<<0>>, 64),
   signature |-> padLeft(<<0>>, 64)]

\* takeOrder: amount = takerAmount || order.takerAssetAmount (a BigNumber is truthy)
\* Faulty variant of TakeAmount: an override of zero counts as none supplied.
TakeAmountFalsyZero(o, takerAmount) ==
  IF takerAmount \notin {Undefined, 0} THEN takerAmount ELSE o.takerAssetAmount

TakeAmount(o, takerAmount) ==
  IF takerAmount # Undefined THEN takerAmount ELSE o.takerAssetAmount

ZxTakeArgs(o, amount) ==
  [exchangeIndex |-> zxIndex,
   methodSignature |-> "takeOrder",
   orderAddresses |-> <<o.makerAddress, zeroAddress,
                        decodeERC20AssetData(o.makerAssetData),
                        decodeERC20AssetData(o.takerAssetData),
                        o.feeRecipientAddress, zeroAddress>>,
   orderValues |-> <<o.makerAssetAmount, o.takerAssetAmount, o.makerFee, o.takerFee,
                     o.expirationTimeSeconds, o.salt, amount, zeroBigNumber>>,
   identifier |-> padLeft(<<0>>, 64),
   makerAssetData |-> o.makerAssetData,
   takerAssetData |-> o.takerAssetData,
   signature |-> o.signature]

ZxMakeArgs(o, identifier) ==
  [exchangeIndex |-> zxIndex,
   methodSignature |-> "makeOrder",
   orderAddresses |-> <<o.makerAddress, zeroAddress,
                        decodeERC20AssetData(o.makerAssetData),
                        decodeERC20AssetData(o.takerAssetData),
                        o.feeRecipientAddress, zeroAddress>>,
   orderValues |-> <<o.makerAssetAmount, o.takerAssetAmount, o.makerFee, o.takerFee,
                     o.expirationTimeSeconds, o.salt, zeroBigNumber, zeroBigNumber>>,
   identifier |-> identifier,
   makerAssetData |-> o.makerAssetData,
   takerAssetData |-> o.takerAssetData,
   signature |-> o.signature]

\* exchangeInfo.findIndex(exchange => sameAddress(exchange.exchange, address)):
\* the 0-based index of the first match, -1 when there is none
\* Faulty variant of findIndex: index 0 when there is no match.
findIndexClamped(list, address) ==
  LET hits == {i \in 1..Len(list) : sameAddress(list[i].exchange, address)}
  IN IF hits = {} THEN 0
     ELSE (CHOOSE i \in hits : \A j \in hits : i <= j) - 1

findIndex(list, address) ==
  LET hits == {i \in 1..Len(list) : sameAddress(list[i].exchange, address)}
  IN IF hits = {} THEN -1
     ELSE (CHOOSE i \in hits : \A j \in hits : i <= j) - 1

\* Faulty variant of KyberTakeArgs: the taker quantity is not repeated in slot 6.
KyberTakeArgsNoFill(exchangeIndex, args) ==
  [exchangeIndex |-> exchangeIndex,
   methodSignature |-> "takeOrder",
   orderAddresses |-> <<zeroAddress, zeroAddress, args.makerAsset, args.takerAsset,
                        zeroAddress, zeroAddress>>,
   orderValues |-> <<args.makerQuantity, args.takerQuantity, 0, 0, 0, 0, 0, 0>>,
   identifier |-> <<0>>,
   makerAssetData |-> <<0>>,
   takerAssetData |-> <<0>>,
   signature |-> <<0>>]

KyberTakeArgs(exchangeIndex, args) ==
  [exchangeIndex |-> exchangeIndex,
   methodSignature |-> "takeOrder",
   orderAddresses |-> <<zeroAddress, zeroAddress, args.makerAsset, args.takerAsset,
                        zeroAddress, zeroAddress>>,
   orderValues |-> <<args.makerQuantity, args.takerQuantity, 0, 0, 0, 0,
                     args.takerQuantity, 0>>,
   identifier |-> <<0>>,
   makerAssetData |-> <<0>>,
   takerAssetData |-> <<0>>,
   signature |-> <<0>>]

\* --- the validate closures: the reads they await, then the checks they launch

CancelReads == <<"getHub">>

CancelChecks == <<"checkSenderIsFundManager">>

TakeReads == <<"getHub", "getRoutes">>

TakeChecks == <<"checkSenderIsFundManager", "checkSufficientBalance">>

MakeReads == <<"getRoutes", "getHub">>

\* Faulty variant of MakeChecks: only the checks takeOrder runs.
MakeChecksOnlyTwo == <<"checkSufficientBalance", "checkSenderIsFundManager">>

MakeChecks ==
  <<"checkSufficientBalance", "checkFundIsNotShutdown", "checkSenderIsFundManager",
    "checkExistingOpenMakeOrder", "checkCooldownReached">>

ReadsOf(validate) ==
  CASE validate = "cancel" -> CancelReads
    [] validate = "take" -> TakeReads
    [] validate = "make" -> MakeReads
    [] OTHER -> <<>>

ChecksOf(validate) ==
  CASE validate = "cancel" -> CancelChecks
    [] validate = "take" -> TakeChecks
    [] validate = "make" -> MakeChecks
    [] OTHER -> <<>>

Range(seq) == {seq[i] : i \in DOMAIN seq}

\* cancelOrder's validate, after its check: if (!orderHashHex) throw ...
MissingHash == op.validate = "cancel" /\ Falsy(op.orderHashHex)

\* The checks: pure functions of the fund's state and the operation's values.
CheckPasses(ch) ==
  CASE ch = "checkSenderIsFundManager" -> sameAddress(op.from, world.manager)
    [] ch = "checkSufficientBalance" -> op.amount <= world.balance[op.token]
    [] ch = "checkFundIsNotShutdown" -> ~world.shutdown
    [] ch = "checkExistingOpenMakeOrder" -> op.makerToken \notin world.openMake
    [] ch = "checkCooldownReached" -> op.makerToken \in world.cooledDown

CheckError(ch) ==
  CASE ch = "checkSenderIsFundManager" -> "SenderIsNotFundManagerError"
    [] ch = "checkSufficientBalance" -> "OutOfBalanceError"
    [] ch = "checkFundIsNotShutdown" -> "FundIsShutDownError"
    [] ch = "checkExistingOpenMakeOrder" -> "ExistingOpenMakeOrderError"
    [] ch = "checkCooldownReached" -> "CooldownNotReachedError"

\* --- the adapter operations

ZxCancelOrder(from, args) ==
  /\ pc = "idle"
  /\ LET orderHashHex == CancelOrderHashHex(args) IN
     /\ methodArgs' = ZxCancelArgs(orderHashHex)
     /\ op' = [NoOp EXCEPT !.adapter = "zeroex", !.kind = "cancelOrder",
                 !.from = from, !.validate = "cancel", !.orderHashHex = orderHashHex]
  /\ pc' = "coe"
  /\ UNCHANGED <<cacheVars, signVars, world, checks, error, netCalls, submissions>>

ZxTakeOrder(from, o, takerAmount) ==
  /\ pc = "idle"
  /\ LET amount == TakeAmount(o, takerAmount) IN
     /\ methodArgs' = ZxTakeArgs(o, amount)
     /\ op' = [NoOp EXCEPT !.adapter = "zeroex", !.kind = "takeOrder",
                 !.from = from, !.validate = "take",
                 !.token = decodeERC20AssetData(o.takerAssetData), !.amount = amount,
                 !.takerAmount = takerAmount]
  /\ pc' = "coe"
  /\ UNCHANGED <<cacheVars, signVars, world, checks, error, netCalls, submissions>>

\* Faulty variant of ZxMakeOrder: no validate closure is handed to callOnExchange.
ZxMakeOrderUnvalidated(from, o, identifier) ==
  /\ pc = "idle"
  /\ methodArgs' = ZxMakeArgs(o, identifier)
  /\ op' = [NoOp EXCEPT !.adapter = "zeroex", !.kind = "makeOrder", !.from = from]
  /\ pc' = "coe"
  /\ UNCHANGED <<cacheVars, signVars, world, checks, error, netCalls, submissions>>

ZxMakeOrder(from, o, identifier) ==
  /\ pc = "idle"
  /\ methodArgs' = ZxMakeArgs(o, identifier)
  /\ op' = [NoOp EXCEPT !.adapter = "zeroex", !.kind = "makeOrder",
              !.from = from, !.validate = "make",
              !.token = decodeERC20AssetData(o.makerAssetData),
              !.amount = o.makerAssetAmount,
              !.makerToken = decodeERC20AssetData(o.makerAssetData)]
  /\ pc' = "coe"
  /\ UNCHANGED <<cacheVars, signVars, world, checks, error, netCalls, submissions>>

\* Kyber.takeOrder up to its first await: trading.getExchangeInfo() is issued.
KyberTakeOrder(from, args) ==
  /\ pc = "idle"
  /\ op' = [NoOp EXCEPT !.adapter = "kyber", !.kind = "takeOrder", !.from = from,
              !.kyberAddress = args.kyberAddress,
              !.makerAsset = args.makerAsset, !.takerAsset = args.takerAsset,
              !.makerQuantity = args.makerQuantity,
              !.takerQuantity = args.takerQuantity]
  /\ netCalls' = Append(netCalls, "getExchangeInfo")
  /\ pc' = "info"
  /\ UNCHANGED <<cacheVars, signVars, world, methodArgs, checks, error, submissions>>

\* Kyber.takeOrder after the exchange info arrived.
KyberExchangeInfo(exchangeInfo) ==
  /\ pc = "info"
  /\ LET exchangeIndex == findIndex(exchangeInfo, op.kyberAddress) IN
     IF exchangeIndex = -1
     THEN /\ pc' = "failed"
          /\ error' = [name |-> "KyberNotRegisteredWithFundError",
                       address |-> op.kyberAddress]
          /\ UNCHANGED methodArgs
     ELSE /\ methodArgs' = KyberTakeArgs(exchangeIndex, op)
          /\ pc' = "coe"
          /\ UNCHANGED error
  /\ op' = [op EXCEPT !.exchangeInfo = exchangeInfo]
  /\ UNCHANGED <<cacheVars, signVars, world, checks, netCalls, submissions>>

\* trading.callOnExchange(from, methodArgs, validate?): validation first.
CallOnExchange ==
  /\ pc = "coe"
  /\ pc' = IF op.validate = "none" THEN "validated" ELSE "validate"
  /\ UNCHANGED <<cacheVars, signVars, world, op, methodArgs, checks, error, netCalls, submissions>>

\* A validate closure starts: its first read is issued.
ValidateStart ==
  /\ pc = "validate"
  /\ netCalls' = Append(netCalls, ReadsOf(op.validate)[1])
  /\ pc' = "reading"
  /\ UNCHANGED <<cacheVars, signVars, world, op, methodArgs, checks, error, submissions>>

\* The awaited read arrived: the closure issues its next read or, after the last
\* one, calls every check of its Promise.all list in the same synchronous step.
ReadDone ==
  /\ pc = "reading"
  /\ LET reads == ReadsOf(op.validate)
         launched == ChecksOf(op.validate)
     IN IF Len(netCalls) < Len(reads)
        THEN /\ netCalls' = Append(netCalls, reads[Len(netCalls) + 1])
             /\ pc' = "reading"
             /\ UNCHANGED checks
        ELSE /\ netCalls' = netCalls \o launched
             /\ checks' = [ch \in CheckNames |->
                             IF ch \in Range(launched) THEN "pending" ELSE checks[ch]]
             /\ pc' = "checking"
  /\ UNCHANGED <<cacheVars, signVars, world, op, methodArgs, error, submissions>>

\* The awaited read failed in the transport.
ReadFail ==
  /\ pc \in {"reading", "info"}
  /\ pc' = "failed"
  /\ error' = [name |-> "TransportError", address |-> Undefined]
  /\ UNCHANGED <<cacheVars, signVars, world, op, methodArgs, checks, netCalls, submissions>>

\* A launched check settles. The awaited Promise.all rejects with the first
\* failure and resolves when every launched check has passed.
\* Faulty variant of CheckResolve: each failure replaces the error surfaced so far.
CheckResolveLastFailureWins(ch) ==
  /\ checks[ch] = "pending"
  /\ LET passed == CheckPasses(ch)
         after == [checks EXCEPT ![ch] = IF passed THEN "passed" ELSE "failed"]
     IN
     /\ checks' = after
     /\ IF ~passed /\ pc \in {"checking", "failed"}
        THEN /\ pc' = "failed"
             /\ error' = [name |-> CheckError(ch), address |-> Undefined]
        ELSE IF pc # "checking"
        THEN UNCHANGED <<pc, error>>
        ELSE IF \A c2 \in Range(ChecksOf(op.validate)) : after[c2] = "passed"
        THEN IF MissingHash
             THEN /\ pc' = "failed"
                  /\ error' = [name |-> "MissingZeroExOrderHashHex",
                               address |-> Undefined]
             ELSE /\ pc' = "validated"
                  /\ UNCHANGED error
        ELSE UNCHANGED <<pc, error>>
  /\ UNCHANGED <<cacheVars, signVars, world, op, methodArgs, netCalls, submissions>>

CheckResolve(ch) ==
  /\ checks[ch] = "pending"
  /\ LET passed == CheckPasses(ch)
         after == [checks EXCEPT ![ch] = IF passed THEN "passed" ELSE "failed"]
     IN
     /\ checks' = after
     /\ IF pc # "checking"
        THEN UNCHANGED <<pc, error>>
        ELSE IF ~passed
        THEN /\ pc' = "failed"
             /\ error' = [name |-> CheckError(ch), address |-> Undefined]
        ELSE IF \A c2 \in Range(ChecksOf(op.validate)) : after[c2] = "passed"
        THEN IF MissingHash
             THEN /\ pc' = "failed"
                  /\ error' = [name |-> "MissingZeroExOrderHashHex",
                               address |-> Undefined]
             ELSE /\ pc' = "validated"
                  /\ UNCHANGED error
        ELSE UNCHANGED <<pc, error>>
  /\ UNCHANGED <<cacheVars, signVars, world, op, methodArgs, netCalls, submissions>>

\* callOnExchange submits the state-changing call once validation has passed.
Submit ==
  /\ pc = "validated"
  /\ submissions' = submissions + 1
  /\ pc' = "submitted"
  /\ UNCHANGED <<cacheVars, signVars, world, op, methodArgs, checks, error, netCalls>>

NextTrade ==
  \/ \E from \in Senders, args \in CancelArgs : ZxCancelOrder(from, args)
  \/ \E from \in Senders, o \in SignedOrders, takerAmount \in TakerAmounts :
       ZxTakeOrder(from, o, takerAmount)
  \/ \E from \in Senders, o \in SignedOrders, identifier \in RandomHexes :
       ZxMakeOrder(from, o, identifier)
  \/ \E from \in Senders, args \in KyberArgs : KyberTakeOrder(from, args)
  \/ \E exchangeInfo \in ExchangeLists : KyberExchangeInfo(exchangeInfo)
  \/ CallOnExchange
  \/ ValidateStart
  \/ ReadDone
  \/ ReadFail
  \/ \E ch \in CheckNames : CheckResolve(ch)
  \/ Submit

\* ================================================================== SpecSign

\* SignatureType.PreSigned of @0x/types
PreSigned == 6

SliceOffLastTwo(str) == SubSeq(str, 1, Len(str) - 2)

\* A signature is a hex string: a sequence of hex digits, two to the byte.
\* str.slice(0, -1): the string without its last character.
SliceOffLast(str) == SubSeq(str, 1, Len(str) - 1)

\* `${n}` of a small number: its decimal digits.
Digits(n) == IF n < 10 THEN <<n>> ELSE <<n \div 10, n % 10>>

LastByte(str) == 16 * str[Len(str) - 1] + str[Len(str)]

\* What signatureUtils.ecSignOrderAsync appends to the order: v, r, s and a final
\* signature-type byte, EIP712 (0x02) or EthSign (0x03).
RawSignatures ==
  { body \o <<0, type>> : body \in {<<1, 11, 5, 5>>, <<1, 12, 0, 6>>}, type \in {2, 3} }

\* The inputs of createUnsignedOrder.
CreateArgs ==
  [makerTokenAddress : {tokenB}, takerTokenAddress : {tokenC},
   makerAssetAmount : {1}, takerAssetAmount : {2},
   takerFee : {Undefined, 0, 2},
   feeRecipientAddress : {Undefined, 14},
   duration : {Undefined, 0, 60}]

\* block.timestamp of the latest block
Timestamps == {1000, 2000}

\* generatePseudoRandomSalt()
Salts == {1, 2}

\* this.info.exchange of the 0x adapter instance
zxExchange == 30

\* Signers: the fund manager's account in both spellings, another account, and
\* the trading contract's own address.
Signers == {20, 21, 22, tradingAddress}

\* Orders built elsewhere whose maker is an externally owned account.
ForeignOrders ==
  { [exchangeAddress |-> zxExchange, makerAddress |-> 20, takerAddress |-> zeroAddress,
     senderAddress |-> zeroAddress, feeRecipientAddress |-> zeroAddress,
     expirationTimeSeconds |-> 500, salt |-> 3,
     makerAssetAmount |-> 1, takerAssetAmount |-> 1,
     makerAssetData |-> encodeERC20AssetData(tokenB),
     takerAssetData |-> encodeERC20AssetData(tokenC),
     makerFee |-> 0, takerFee |-> 0] }

\* Faulty variant of createUnsignedOrder: a duration of 0 counts as none given.
createUnsignedOrderFalsyDuration(values, timestamp, salt) ==
  LET duration == IF values.duration \in {Undefined, 0} THEN 24 * 60 * 60
                  ELSE values.duration
  IN [exchangeAddress |-> zxExchange,
      makerAddress |-> tradingAddress,
      takerAddress |-> zeroAddress,
      senderAddress |-> zeroAddress,
      feeRecipientAddress |-> IF values.feeRecipientAddress = Undefined
                              THEN zeroAddress ELSE values.feeRecipientAddress,
      expirationTimeSeconds |-> timestamp + duration,
      salt |-> salt,
      makerAssetAmount |-> values.makerAssetAmount,
      takerAssetAmount |-> values.takerAssetAmount,
      makerAssetData |-> encodeERC20AssetData(values.makerTokenAddress),
      takerAssetData |-> encodeERC20AssetData(values.takerTokenAddress),
      makerFee |-> zeroBigNumber,
      takerFee |-> IF values.takerFee = Undefined THEN zeroBigNumber
                   ELSE values.takerFee]

createUnsignedOrder(values, timestamp, salt) ==
  LET duration == IF values.duration = Undefined THEN 24 * 60 * 60 ELSE values.duration
  IN [exchangeAddress |-> zxExchange,
      makerAddress |-> tradingAddress,
      takerAddress |-> zeroAddress,
      senderAddress |-> zeroAddress,
      feeRecipientAddress |-> IF values.feeRecipientAddress = Undefined
                              THEN zeroAddress ELSE values.feeRecipientAddress,
      expirationTimeSeconds |-> timestamp + duration,
      salt |-> salt,
      makerAssetAmount |-> values.makerAssetAmount,
      takerAssetAmount |-> values.takerAssetAmount,
      makerAssetData |-> encodeERC20AssetData(values.makerTokenAddress),
      takerAssetData |-> encodeERC20AssetData(values.takerTokenAddress),
      makerFee |-> zeroBigNumber,
      takerFee |-> IF values.takerFee = Undefined THEN zeroBigNumber
                   ELSE values.takerFee]

CreateUnsignedOrder(values, timestamp, salt) ==
  /\ signPc = "none"
  /\ order' = createUnsignedOrder(values, timestamp, salt)
  /\ signPc' = "built"
  /\ UNCHANGED <<cacheVars, tradeVars, signer, signed, returned>>

\* signOrder(order, signer) up to its await of the signing primitive.
\* The order handed in is any order the caller holds: the one just built, one
\* built elsewhere, or one an earlier signOrder returned (nothing in signOrder
\* looks at whether its argument carries a signature already).
SignOrder(o, who) ==
  /\ signPc \in {"none", "built", "returnedSigned", "returnedPreSigned"}
  /\ o \in (IF signPc = "built" THEN {order} ELSE {})
          \cup (IF signPc \in {"returnedSigned", "returnedPreSigned"}
                THEN {returned} ELSE {})
          \cup ForeignOrders
  /\ order' = o
  /\ signer' = who
  /\ signPc' = "signing"
  /\ UNCHANGED <<cacheVars, tradeVars, signed, returned>>

\* The signing primitive answers: the order with a signature attached.
EcSignOrderAsync(raw) ==
  /\ signPc = "signing"
  /\ signed' = [signature |-> raw] @@ order
  /\ signPc' = "signed"
  /\ UNCHANGED <<cacheVars, tradeVars, order, signer, returned>>

\* The signing primitive fails; signOrder passes the failure on.
EcSignOrderFails ==
  /\ signPc = "signing"
  /\ signPc' = "failed"
  /\ UNCHANGED <<cacheVars, tradeVars, order, signer, signed, returned>>

\* Faulty variant of MarkPreSigned: two characters are sliced off, one appended.
MarkPreSignedWholeByte(signature) == SliceOffLastTwo(signature) \o Digits(PreSigned)

\* The pre-signed fallback: `${signed.signature.slice(0, -1)}${SignatureType.PreSigned}`
MarkPreSigned(signature) == SliceOffLast(signature) \o Digits(PreSigned)

\* signOrder after the primitive answered: what it returns.
SignOrderResult(signedOrder, who) ==
  IF sameAddress(signedOrder.makerAddress, who)
  THEN signedOrder
  ELSE [signedOrder EXCEPT !.signature = MarkPreSigned(signedOrder.signature)]

SignOrderReturn ==
  /\ signPc = "signed"
  /\ returned' = SignOrderResult(signed, signer)
  /\ signPc' = IF sameAddress(signed.makerAddress, signer)
               THEN "returnedSigned" ELSE "returnedPreSigned"
  /\ UNCHANGED <<cacheVars, tradeVars, order, signer, signed>>

NextSign ==
  \/ \E values \in CreateArgs, timestamp \in Timestamps, salt \in Salts :
       CreateUnsignedOrder(values, timestamp, salt)
  \/ \E o \in {order, returned} \cup ForeignOrders, who \in Signers :
       SignOrder(o, who)
  \/ \E raw \in RawSignatures : EcSignOrderAsync(raw)
  \/ EcSignOrderFails
  \/ SignOrderReturn

\* ================================================================== specifications

\* The state of each subsystem after construction.
IdleCache ==
  /\ cache = <<>>
  /\ promises = <<>>
  /\ chain = 0
  /\ lastCall = NoCall
  /\ firstRet = <<>>

IdleTrade ==
  /\ op = NoOp
  /\ pc = "idle"
  /\ methodArgs = NoMethodArgs
  /\ checks = [ch \in CheckNames |-> "notrun"]
  /\ error = NoError
  /\ netCalls = <<>>
  /\ submissions = 0

IdleSign ==
  /\ signPc = "none"
  /\ order = <<>>
  /\ signer = Undefined
  /\ signed = <<>>
  /\ returned = <<>>

DefaultWorld ==
  [manager |-> managerAddress, shutdown |-> FALSE, balance |-> [t \in Tokens |-> 0],
   openMake |-> {}, cooledDown |-> {}]

InitCache ==
  /\ cacheEnabled \in BOOLEAN
  /\ IdleCache
  /\ world = DefaultWorld
  /\ IdleTrade
  /\ IdleSign

InitTrade ==
  /\ cacheEnabled = TRUE
  /\ IdleCache
  /\ world \in Worlds
  /\ IdleTrade
  /\ IdleSign

InitSign ==
  /\ cacheEnabled = TRUE
  /\ IdleCache
  /\ world = DefaultWorld
  /\ IdleTrade
  /\ IdleSign

SpecCache == InitCache /\ [][NextCache]_vars

SpecTrade == InitTrade /\ [][NextTrade]_vars

SpecSign == InitSign /\ [][NextSign]_vars

\* ================================================================== properties

Invocations(key) == {p \in DOMAIN promises : promises[p].key = key}

LastKey == Key(lastCall.block, lastCall.name, lastCall.args)

\* C1: with caching enabled, the makeCall invocations that share a key (block
\* reference, method name, serialized arguments) cause at most one invocation of
\* the underlying method binding, and every one of them that returns, returns the
\* promise the first one returned, which is the one the cache stores.
C1_OneInvocationPerKey ==
  cacheEnabled =>
    /\ \A p, q \in DOMAIN promises : promises[p].key = promises[q].key => p = q
    /\ lastCall.outcome = "returned" =>
         /\ LastKey \in DOMAIN firstRet
         /\ lastCall.result = firstRet[LastKey]
         /\ cache[LastKey] = firstRet[LastKey]

\* C1: a second call with the key of a request that is still pending was served
\* from the cache.
C1_Witness ==
  /\ cacheEnabled
  /\ lastCall.outcome = "returned"
  /\ ~lastCall.invoked
  /\ promises[lastCall.result].state = "pending"
  /\ Cardinality(Invocations(LastKey)) = 1

\* The checks an operation's validate step is made of.
StepChecks ==
  CASE op.adapter = "zeroex" /\ op.kind = "cancelOrder" ->
         {"checkSenderIsFundManager"}
    [] op.adapter = "zeroex" /\ op.kind = "takeOrder" ->
         {"checkSenderIsFundManager", "checkSufficientBalance"}
    [] op.adapter = "zeroex" /\ op.kind = "makeOrder" -> CheckNames
    [] OTHER -> {}

Registered(list, address) ==
  \E i \in DOMAIN list : (list[i].exchange \div 2) = (address \div 2)

\* C2: validation strictly precedes submission. An operation submits at most
\* one call; it has submitted only if every check of its validate step (for the
\* Kyber adapter: its registration lookup) has passed and no error was raised;
\* and once a check has failed or an error was raised nothing is submitted.
C2_ValidationPrecedesSubmission ==
  /\ submissions <= 1
  /\ (pc = "submitted") <=> (submissions = 1)
  /\ submissions = 1 =>
       /\ error = NoError
       /\ \A ch \in StepChecks : checks[ch] = "passed"
       /\ op.kind = "cancelOrder" => ~Falsy(methodArgs.identifier)
       /\ op.adapter = "kyber" => Registered(op.exchangeInfo, op.kyberAddress)
  /\ ((\E ch \in CheckNames : checks[ch] = "failed") \/ error # NoError) =>
       submissions = 0

\* C2: a makeOrder whose five checks passed has submitted its call.
C2_Witness ==
  /\ pc = "submitted"
  /\ op.kind = "makeOrder"
  /\ \A ch \in CheckNames : checks[ch] = "passed"

\* C3: cancelOrder with neither orderHashHex nor orderId issues no network call
\* (no getHub read, no fund-manager check, no submission) and, when it has
\* failed, has failed with MissingZeroExOrderHashHex.
C3_MissingIdentifierFailsOffline ==
  (op.kind = "cancelOrder" /\ Falsy(op.orderHashHex)) =>
    /\ netCalls = <<>>
    /\ checks["checkSenderIsFundManager"] = "notrun"
    /\ submissions = 0
    /\ pc = "failed" => error.name = "MissingZeroExOrderHashHex"

NoCheckStarted == \A ch \in CheckNames : checks[ch] = "notrun"

\* C4: a Kyber takeOrder whose exchange info arrived without the given address
\* has failed with KyberNotRegisteredWithFundError carrying that address; no
\* call-argument record was built, no validation check was started and nothing
\* was submitted, neither then nor while the exchange info was awaited.
C4_UnregisteredFailsFirst ==
  /\ (op.adapter = "kyber" /\ pc = "info") =>
       NoCheckStarted /\ submissions = 0
  /\ ( /\ op.adapter = "kyber"
       /\ pc \notin {"idle", "info"}
       /\ error.name # "TransportError"
       /\ ~Registered(op.exchangeInfo, op.kyberAddress) ) =>
       /\ pc = "failed"
       /\ error = [name |-> "KyberNotRegisteredWithFundError",
                   address |-> op.kyberAddress]
       /\ methodArgs = NoMethodArgs
       /\ NoCheckStarted
       /\ submissions = 0
       /\ netCalls = <<"getExchangeInfo">>

\* C4: the registration error was raised against a fund that has exchanges, none
\* of them the given one.
C4_Witness ==
  /\ op.adapter = "kyber"
  /\ pc = "failed"
  /\ error.name = "KyberNotRegisteredWithFundError"
  /\ Len(op.exchangeInfo) = 2

\* C5: every takeOrder, of the 0x adapter and of the Kyber adapter, has submitted
\* its call only after the sender-is-fund-manager check and the
\* sufficient-balance check were both run and both passed.
C5_TakeOrderChecksBeforeSubmit ==
  (op.kind = "takeOrder" /\ submissions > 0) =>
    /\ checks["checkSenderIsFundManager"] = "passed"
    /\ checks["checkSufficientBalance"] = "passed"

\* C6: once makeOrder's validate has resolved the hub and the vault, all five
\* checks have been invoked: whenever one of them was started, has failed, or
\* the validation is past its reads, none of the five is left not run.
C6_AllFiveChecksLaunched ==
  ( /\ op.kind = "makeOrder"
    /\ \/ pc \in {"checking", "validated", "submitted"}
       \/ pc = "failed" /\ error.name # "TransportError"
       \/ ~NoCheckStarted ) =>
    /\ \A ch \in {"checkSufficientBalance", "checkFundIsNotShutdown",
                  "checkSenderIsFundManager", "checkExistingOpenMakeOrder",
                  "checkCooldownReached"} :
         checks[ch] # "notrun" /\ \E i \in DOMAIN netCalls : netCalls[i] = ch
    /\ Len(netCalls) = 7

\* C6: one check of a makeOrder has failed, the operation has failed with it, and
\* another of the five is still running.
C6_Witness ==
  /\ op.kind = "makeOrder"
  /\ pc = "failed"
  /\ checks["checkSufficientBalance"] = "failed"
  /\ checks["checkCooldownReached"] = "pending"
  /\ checks["checkFundIsNotShutdown"] = "passed"

\* The slots of the address and value arrays that carry no order data (1-based).
UnusedAddressSlots ==
  CASE op.adapter = "zeroex" /\ op.kind = "cancelOrder" -> 1..6
    [] op.adapter = "zeroex" -> {2, 6}
    [] OTHER -> {1, 2, 5, 6}

UnusedValueSlots ==
  CASE op.adapter = "zeroex" /\ op.kind = "cancelOrder" -> 1..8
    [] op.adapter = "zeroex" /\ op.kind = "takeOrder" -> {8}
    [] op.adapter = "zeroex" /\ op.kind = "makeOrder" -> {7, 8}
    [] OTHER -> {3, 4, 5, 6, 8}

\* C7: every call-argument record an adapter operation built has an address
\* array of exactly 6 elements and a value array of exactly 8 elements; the slots
\* that carry no order data hold the zero address / the zero amount, and no slot
\* is undefined.
C7_FixedShapeArguments ==
  methodArgs # NoMethodArgs =>
    /\ Len(methodArgs.orderAddresses) = 6
    /\ Len(methodArgs.orderValues) = 8
    /\ \A i \in UnusedAddressSlots : methodArgs.orderAddresses[i] = 0
    /\ \A i \in UnusedValueSlots : methodArgs.orderValues[i] = 0
    /\ \A i \in 1..6 : methodArgs.orderAddresses[i] # Undefined
    /\ \A i \in 1..8 : methodArgs.orderValues[i] # Undefined

\* C7: a cancelOrder given neither identifier has built its record all the same.
C7_Witness ==
  /\ op.kind = "cancelOrder"
  /\ methodArgs # NoMethodArgs
  /\ methodArgs.identifier = UndefStr
  /\ Len(methodArgs.orderValues) = 8

\* C8: signOrder returns the signing primitive's output untouched when the
\* signer is the order's maker; otherwise the returned signature has the length
\* of the raw one, agrees with it in every byte but the last, ends in the
\* pre-signed marker byte, and every other field is the signed order's.
C8_SignOrderSignature ==
  signPc \in {"returnedSigned", "returnedPreSigned"} =>
    LET raw == signed.signature
        out == returned.signature
    IN IF (signer \div 2) = (signed.makerAddress \div 2)
       THEN returned = signed /\ signPc = "returnedSigned"
       ELSE /\ signPc = "returnedPreSigned"
            /\ Len(out) = Len(raw)
            /\ \A i \in 1..(Len(raw) - 2) : out[i] = raw[i]
            /\ LastByte(out) = PreSigned
            /\ DOMAIN returned = DOMAIN signed
            /\ \A f \in DOMAIN signed \ {"signature"} : returned[f] = signed[f]

\* C8: an order built for the fund's trading contract was signed by the manager
\* and came back marked pre-signed.
C8_Witness ==
  /\ signPc = "returnedPreSigned"
  /\ signed.makerAddress = tradingAddress
  /\ signer = managerAddress
  /\ returned.signature # signed.signature

\* C9: a Kyber takeOrder whose exchange info holds the given address at index i
\* (0-based) has built a record with exchangeIndex = i, the maker and taker
\* quantities in value slots 0 and 1, the taker quantity again in slot 6, zero in
\* slots 2, 3, 4, 5 and 7, and the maker and taker assets in address slots 2, 3.
C9_KyberCallArguments ==
  ( /\ op.adapter = "kyber"
    /\ pc \notin {"idle", "info"}
    /\ error.name # "TransportError" ) =>
    \A i \in DOMAIN op.exchangeInfo :
      (op.exchangeInfo[i].exchange \div 2) = (op.kyberAddress \div 2) =>
        /\ pc # "failed"
        /\ methodArgs.exchangeIndex = i - 1
        /\ methodArgs.orderValues =
             <<op.makerQuantity, op.takerQuantity, 0, 0, 0, 0, op.takerQuantity, 0>>
        /\ methodArgs.orderAddresses[3] = op.makerAsset
        /\ methodArgs.orderAddresses[4] = op.takerAsset

\* C9: the scenario of the specification: the exchange at index 2, 100 for 50.
C9_Witness ==
  /\ op.adapter = "kyber"
  /\ pc = "submitted"
  /\ methodArgs.exchangeIndex = 2
  /\ methodArgs.orderValues[1] = 100
  /\ methodArgs.orderValues[2] = 50
  /\ methodArgs.orderValues[7] = 50

\* C10: a stored cache entry is never evicted, overwritten or invalidated: every
\* step, a state-changing call included, leaves each stored key mapped to the
\* promise it was mapped to, and a makeCall with a stored key returns that promise.
C10_EntriesNeverEvicted ==
  [][ /\ \A k \in DOMAIN cache : k \in DOMAIN cache' /\ cache'[k] = cache[k]
      /\ \A site \in CallSites :
           LET k == Key(site.block, site.name, site.args) IN
           (MakeCall(site) /\ k \in DOMAIN cache) =>
             lastCall'.outcome = "returned" /\ lastCall'.result = cache[k] ]_vars

\* C10: after a state-changing call, a read at 'latest' was served the result
\* stored before it.
C10_Witness ==
  /\ lastCall.outcome = "returned"
  /\ ~lastCall.invoked
  /\ lastCall.block = Undefined
  /\ promises[lastCall.result].state = "resolved"
  /\ promises[lastCall.result].value # chain

\* C11: the signing lifecycle has only the transitions Built -> Signed and
\* Signed -> PreSigned-Marked: an order comes back pre-signed only from Signed
\* and only on a signer/maker mismatch, and a step that leaves one of the
\* terminal states Signed (returned) and PreSigned-Marked starts on another, not
\* yet signed order, never on the signed one.
C11_SigningLifecycle ==
  [][ /\ (signPc' = "returnedPreSigned" /\ signPc # "returnedPreSigned") =>
            /\ signPc = "signed"
            /\ (signer \div 2) # (signed.makerAddress \div 2)
      /\ (signPc' = "signed" /\ signPc # "signed") => signPc = "signing"
      /\ (signPc \in {"returnedSigned", "returnedPreSigned"} /\ signPc' # signPc) =>
            "signature" \notin DOMAIN order' ]_vars

\* C12: makeCall hands the failure of the underlying invocation to its caller as
\* it is and never retries. A step invokes a method binding at most once, and
\* only as the makeCall that returns that very invocation's promise; the failure
\* of a request is the rejection of the promise the caller holds, it issues no
\* further request and replaces nothing the caller was given; and a rejected
\* promise is never turned into anything else.
C12_FailurePropagatesNoRetry ==
  [][ /\ Len(promises') <= Len(promises) + 1
      /\ Len(promises') > Len(promises) =>
            /\ lastCall'.outcome = "returned"
            /\ lastCall'.invoked
            /\ lastCall'.result = Len(promises')
            /\ promises'[Len(promises')].contract = lastCall'.contract
            /\ promises'[Len(promises')].state = "pending"
      /\ \A p \in DOMAIN promises :
            /\ promises[p].state = "rejected" => promises'[p] = promises[p]
            /\ (promises[p].state = "pending" /\ promises'[p].state = "rejected") =>
                  /\ Len(promises') = Len(promises)
                  /\ lastCall' = lastCall
                  /\ cache' = cache ]_vars

\* C12: the one invocation a makeCall made has failed, and the caller holds that
\* failed promise; no other invocation was made.
C12_Witness ==
  /\ lastCall.outcome = "returned"
  /\ lastCall.invoked
  /\ promises[lastCall.result].state = "rejected"
  /\ Len(promises) = 1

\* C13: on a miss with caching enabled, the makeCall step that issues the
\* request also stores its promise under the key, while that promise is still
\* pending, so that every promise issued is stored from its first moment on.
\* With caching disabled every makeCall issues a request of its own, the cache
\* stays empty and no key is computed: the call goes through even where the
\* key's digest would raise (an omitted argument list).
C13_StoredInTheIssuingStep ==
  [][ \A site \in CallSites :
        LET key == Key(site.block, site.name, site.args) IN
        MakeCall(site) =>
          /\ (cacheEnabled /\ lastCall'.outcome = "returned" /\ key \notin DOMAIN cache) =>
                /\ Len(promises') = Len(promises) + 1
                /\ lastCall'.invoked
                /\ key \in DOMAIN cache'
                /\ cache'[key] = Len(promises')
                /\ lastCall'.result = cache'[key]
                /\ promises'[cache'[key]].state = "pending"
          /\ cacheEnabled =>
                \A p \in DOMAIN promises' :
                  promises'[p].key \in DOMAIN cache' /\ cache'[promises'[p].key] = p
          /\ ~cacheEnabled =>
                /\ lastCall'.outcome = "returned"
                /\ lastCall'.invoked
                /\ Len(promises') = Len(promises) + 1
                /\ lastCall'.result = Len(promises')
                /\ cache = <<>> /\ cache' = <<>> ]_vars

\* C13: with caching enabled, a request that is still pending sits in the cache
\* under the key of the call that has just issued it.
C13_Witness ==
  /\ cacheEnabled
  /\ lastCall.outcome = "returned"
  /\ lastCall.invoked
  /\ LastKey \in DOMAIN cache
  /\ cache[LastKey] = lastCall.result
  /\ promises[lastCall.result].state = "pending"

\* The (block reference, method name, serialized argument list) of a call or of
\* the call a promise was issued for.
Triple(c) == <<c.block, c.name, JSONstringify(c.args)>>

\* C14: cache keys are content-based. With caching enabled, calls share an entry
\* exactly when they agree on the block reference (omitted counting as a value of
\* its own), the method name and the serialized argument list: every returned
\* promise was issued for the triple of the call it is returned to, one promise
\* is issued per triple however often it is called, and the key of an entry is
\* the key of exactly the calls that have the triple its promise was issued for.
C14_KeysAreContentBased ==
  cacheEnabled =>
    /\ lastCall.outcome = "returned" =>
         Triple(promises[lastCall.result]) = Triple(lastCall)
    /\ \A p, q \in DOMAIN promises :
         Triple(promises[p]) = Triple(promises[q]) => p = q
    /\ \A k \in DOMAIN cache :
         \A site \in CallSites :
           (k = Key(site.block, site.name, site.args)) <=>
             (Triple(promises[cache[k]]) = Triple(site))

\* C14: a call that differs from a stored one in the block reference alone was
\* not served the stored promise but one of its own.
C14_Witness ==
  /\ cacheEnabled
  /\ Len(promises) = 2
  /\ lastCall.outcome = "returned"
  /\ lastCall.invoked
  /\ promises[1].name = lastCall.name
  /\ promises[1].args = lastCall.args
  /\ promises[1].block # lastCall.block
  /\ lastCall.result = 2

\* C17: a read served by makeCall on a Contract object is the result of a
\* request issued on that same contract's method binding: the promise a call
\* returns was issued by the contract the call was made on.
C17_ServedByOwnContract ==
  lastCall.outcome = "returned" =>
    promises[lastCall.result].contract = lastCall.contract

\* C18: with caching enabled a failed read stays cached. A makeCall whose key
\* holds the promise of a failed request returns that promise and issues no
\* request; the failed promise stays failed and stays stored under its key.
C18_FailedReadStaysCached ==
  [][ cacheEnabled =>
        /\ \A site \in CallSites :
             LET key == Key(site.block, site.name, site.args) IN
             (/\ MakeCall(site)
              /\ key \in DOMAIN cache
              /\ promises[cache[key]].state = "rejected") =>
                /\ promises' = promises
                /\ lastCall'.outcome = "returned"
                /\ ~lastCall'.invoked
                /\ lastCall'.result = cache[key]
        /\ \A k \in DOMAIN cache :
             promises[cache[k]].state = "rejected" =>
               /\ k \in DOMAIN cache'
               /\ cache'[k] = cache[k]
               /\ promises'[cache[k]] = promises[cache[k]] ]_vars

\* C18: a call was served the stored promise of a request that had failed, and
\* that failed request is the only one ever issued for its key.
C18_Witness ==
  /\ cacheEnabled
  /\ lastCall.outcome = "returned"
  /\ ~lastCall.invoked
  /\ promises[lastCall.result].state = "rejected"
  /\ Cardinality(Invocations(LastKey)) = 1

\* C15: the validation pipeline of makeOrder and takeOrder passes exactly when
\* every one of its checks passes. It fails at the first check seen to fail,
\* with that check's own error; the error surfaced never changes afterwards,
\* whatever the checks still in flight do, and it names no other check.
C15_FirstFailureSurfaces ==
  [][ (op.validate \in {"take", "make"} /\ pc \in {"checking", "failed", "validated"}) =>
        /\ (pc = "checking" /\ pc' = "failed") =>
              /\ \A c \in StepChecks : checks[c] # "failed"
              /\ \E ch \in StepChecks :
                   /\ checks[ch] = "pending"
                   /\ checks'[ch] = "failed"
                   /\ ~CheckPasses(ch)
                   /\ error' = [name |-> CheckError(ch), address |-> Undefined]
        /\ (pc = "checking" /\ pc' = "validated") =>
              /\ \A c \in StepChecks : checks'[c] = "passed" /\ CheckPasses(c)
              /\ error' = NoError
        /\ (pc = "checking" /\ pc' = "checking") =>
              /\ \A c \in StepChecks : checks'[c] # "failed"
              /\ \E c \in StepChecks : checks'[c] = "pending"
        /\ pc = "failed" => pc' = "failed" /\ error' = error
        /\ pc = "validated" => error' = NoError /\ pc' \in {"validated", "submitted"} ]_vars

\* C15: two checks of makeOrder have failed; the error surfaced is that of the
\* one that failed first, and the other's failure is not reported.
C15_Witness ==
  /\ op.validate = "make"
  /\ pc = "failed"
  /\ checks["checkFundIsNotShutdown"] = "failed"
  /\ checks["checkSufficientBalance"] = "failed"
  /\ error = [name |-> "FundIsShutDownError", address |-> Undefined]

\* C16: the order createUnsignedOrder returns expires at the latest block's
\* timestamp plus the duration, the duration being 86400 s exactly when none is
\* given (a duration of 0 gives the block's timestamp itself); its makerFee is
\* zero, its takerFee and its fee recipient are the given ones or zero, its taker
\* and sender are the zero address and its maker is the trading contract.
C16_UnsignedOrderDefaults ==
  [][ \A values \in CreateArgs, timestamp \in Timestamps, salt \in Salts :
        CreateUnsignedOrder(values, timestamp, salt) =>
          /\ order'.expirationTimeSeconds =
               IF values.duration = Undefined THEN timestamp + 86400
               ELSE timestamp + values.duration
          /\ (values.duration = 0) => order'.expirationTimeSeconds = timestamp
          /\ order'.makerFee = 0
          /\ order'.takerFee = IF values.takerFee = Undefined THEN 0 ELSE values.takerFee
          /\ order'.feeRecipientAddress =
               IF values.feeRecipientAddress = Undefined THEN 0
               ELSE values.feeRecipientAddress
          /\ order'.takerAddress = 0
          /\ order'.senderAddress = 0
          /\ order'.makerAddress = tradingAddress
          /\ "signature" \notin DOMAIN order' ]_vars

\* C16: an order was built with an explicit duration of 0: it expires at the
\* timestamp of the latest block.
C16_Witness ==
  /\ signPc = "built"
  /\ order.expirationTimeSeconds \in Timestamps
  /\ order.makerAddress = tradingAddress

\* C19: in the 0x takeOrder the fill amount is the takerAmount override when one
\* is supplied and the order's takerAssetAmount otherwise. That amount is the
\* seventh of orderValues and the amount the sufficient-balance check is made
\* with, for the order's taker token against the vault's balance; so whatever is
\* submitted fills no more than the balance the check has passed.
C19_FillAmountIsCheckedAmount ==
  (op.adapter = "zeroex" /\ op.kind = "takeOrder") =>
    LET fill == IF op.takerAmount # Undefined THEN op.takerAmount
                ELSE methodArgs.orderValues[2]
    IN /\ methodArgs.orderValues[7] = fill
       /\ op.amount = fill
       /\ op.token = methodArgs.orderAddresses[4]
       /\ op.token = decodeERC20AssetData(methodArgs.takerAssetData)
       /\ "checkSufficientBalance" \in Range(ChecksOf(op.validate))
       /\ pc = "submitted" =>
            /\ checks["checkSufficientBalance"] = "passed"
            /\ methodArgs.orderValues[7] <= world.balance[op.token]

\* C19: a take order was submitted with an override that differs from the
\* order's own taker amount; the override is what it fills.
C19_Witness ==
  /\ op.adapter = "zeroex"
  /\ op.kind = "takeOrder"
  /\ pc = "submitted"
  /\ op.takerAmount # Undefined
  /\ methodArgs.orderValues[7] = op.takerAmount
  /\ methodArgs.orderValues[7] # methodArgs.orderValues[2]

====
